---- MODULE Spec2Model ----
(***************************************************************************)
(* Model of the speech-synthesis fallback chain of text_to_speech.py       *)
(* (generate_tts and its helpers).  Paths and texts are sequences of       *)
(* one-character strings, so that os.path.splitext, os.path.dirname,       *)
(* str.lower and str.strip are computed as Python computes them.  The      *)
(* file system is a function from the paths that exist to the state of     *)
(* their content.  What the outside world answers (an import that fails,   *)
(* a tool that exits non-zero, a tool that exits zero without writing) is  *)
(* a nondeterministic choice made by each step.                            *)
(***************************************************************************)
EXTENDS Naturals, Integers, Sequences, FiniteSets, TLC

VARIABLES
    platform,          \* sys.platform
    installed,         \* importable libraries and binaries on the search path
    fs,                \* files on disk: path -> "audio" | "partial"
    dirs,              \* directories on disk
    pc,                \* position inside generate_tts
    text,              \* argument text
    output_filepath,   \* argument output_filepath
    requested_ext,     \* local requested_ext
    result,            \* how the call ended
    ret,               \* the returned path (<<>> when none)
    log,               \* the external operations of this call, in order
    attempt,           \* how each backend of the chain ended in this call
    obs,               \* what each external operation answered in this call
    fs0,               \* fs when the call started
    dirs0,             \* dirs when the call started
    calls,             \* number of calls started
    prev,              \* the call before this one: its path, result, returned path
    mn,                \* main() of get_summary.py: its position and locals
    logFile            \* the lines of processed_repos.txt

vars == <<platform, installed, fs, dirs, pc, text, output_filepath,
          requested_ext, result, ret, log, attempt, obs, fs0, dirs0, calls,
          prev, mn, logFile>>

\* what generate_tts itself never touches
others == <<prev, mn, logFile>>

-----------------------------------------------------------------------------
(* Bounds *)

MaxTextLen == 1

MaxCalls == 1
MaxPairCalls == 2
MaxRepos == 2

-----------------------------------------------------------------------------
(* Strings as sequences of characters *)

Whitespace == {" "}

TextChars == {" ", "a"}

RECURSIVE SeqsUpTo(_, _)
SeqsUpTo(S, n) ==
    IF n = 0 THEN {<<>>}
    ELSE LET shorter == SeqsUpTo(S, n - 1)
         IN  shorter \cup {Append(s, c) : s \in shorter, c \in S}

Texts == SeqsUpTo(TextChars, MaxTextLen)

RECURSIVE LStrip(_)
LStrip(s) ==
    IF s = <<>> THEN s
    ELSE IF Head(s) \in Whitespace THEN LStrip(Tail(s)) ELSE s

RECURSIVE RStrip(_)
RStrip(s) ==
    IF s = <<>> THEN s
    ELSE IF s[Len(s)] \in Whitespace THEN RStrip(SubSeq(s, 1, Len(s) - 1)) ELSE s

Strip(s) == RStrip(LStrip(s))

LowerChar(c) ==
    CASE c = "M" -> "m"
      [] c = "P" -> "p"
      [] c = "W" -> "w"
      [] OTHER -> c

Lower(s) == [i \in 1..Len(s) |-> LowerChar(s[i])]

\* str.rfind: the last index of character c in s, 0 when there is none
RECURSIVE RFind(_, _)
RFind(s, c) ==
    IF s = <<>> THEN 0
    ELSE IF s[Len(s)] = c THEN Len(s)
    ELSE RFind(SubSeq(s, 1, Len(s) - 1), c)

RECURSIVE RStripSep(_)
RStripSep(s) ==
    IF s = <<>> THEN s
    ELSE IF s[Len(s)] = "/" THEN RStripSep(SubSeq(s, 1, Len(s) - 1)) ELSE s

\* os.path.dirname (posixpath)
DirName(p) ==
    LET i    == RFind(p, "/")
        head == SubSeq(p, 1, i)
    IN  IF head # <<>> /\ (\E k \in 1..Len(head) : head[k] # "/")
        THEN RStripSep(head)
        ELSE head

\* os.path.splitext (genericpath._splitext): <<root, ext>>
SplitExt(p) ==
    LET sepIndex == RFind(p, "/")
        dotIndex == RFind(p, ".")
    IN  IF dotIndex > sepIndex
           /\ (\E k \in (sepIndex + 1)..(dotIndex - 1) : p[k] # ".")
        THEN <<SubSeq(p, 1, dotIndex - 1), SubSeq(p, dotIndex, Len(p))>>
        ELSE <<p, <<>>>>

Ext(p) == SplitExt(p)[2]

DotMp3 == <<".", "m", "p", "3">>
DotWav == <<".", "w", "a", "v">>
DotAiff == <<".", "a", "i", "f", "f">>
DotM4a == <<".", "m", "4", "a">>

OUTPUT_DIR == <<"o", "u", "t", "p", "u", "t">>

ChangeExtNoSplit(path, new_ext) == path \o new_ext

_change_ext(path, new_ext) == SplitExt(path)[1] \o new_ext

-----------------------------------------------------------------------------
(* The environment and the inputs *)

Platforms == {"darwin", "linux", "win32"}

IsDarwin(pf) == pf = "darwin"

IsLinux(pf) == pf \in {"linux", "linux2"}

IsWindows(pf) == pf \in {"win32"}

Libraries == {"gtts", "pyttsx3"}

PlatformTools(pf) ==
    CASE IsDarwin(pf) -> {"say", "afconvert", "ffmpeg"}
      [] IsLinux(pf) -> {"espeak-ng", "espeak", "ffmpeg"}
      [] OTHER -> {"powershell", "ffmpeg"}

Installs(pf) == {l \cup t : l \in SUBSET Libraries, t \in SUBSET PlatformTools(pf)}

\* "o/v.mp3", "o/v", "o/v.wav", "v.mp3", "o/v.MP3"
Paths ==
    { <<"o", "/", "v", ".", "m", "p", "3">>,
      <<"o", "/", "v">>,
      <<"o", "/", "v", ".", "w", "a", "v">>,
      <<"v", ".", "m", "p", "3">>,
      <<"o", "/", "v", ".", "M", "P", "3">> }

NoPath == <<>>

Backends == {"A", "B", "C"}

NoAttempt == [b \in Backends |-> "none"]

NoObs == [gtts |-> "none", pyttsx3 |-> "none", tool |-> "none",
          afconvert |-> "none", ffmpeg |-> "none", rm |-> "none"]

EmptyFs == [p \in {} |-> "audio"]

NoPrev == [path |-> NoPath, result |-> "none", ret |-> NoPath]

NoName == ""

\* main() is not running
MainOff == [pc |-> "off", processed |-> {}, repos |-> <<>>, idx |-> 0,
            picked |-> NoName, readme |-> "none", summary |-> "none",
            written |-> {}, plain |-> <<>>, appended |-> <<>>,
            audio |-> NoPath, reported |-> NoPath, outcome |-> "none"]

-----------------------------------------------------------------------------
(* The file system *)

Exists(f, p) == p \in DOMAIN f

WriteFile(f, p, c) == [q \in (DOMAIN f) \cup {p} |-> IF q = p THEN c ELSE f[q]]

RemoveOutcomes(f, p) == IF Exists(f, p) THEN {"ok", "fail"} ELSE {"fail"}

RemoveKeeps(f, p, o) == f

\* try: os.remove(p) / except: pass
RemoveFile(f, p, o) ==
    IF o = "ok" THEN [q \in (DOMAIN f) \ {p} |-> f[q]] ELSE f

EnsureDirNoop(ds, p) == ds

RECURSIVE WithAncestors(_)
WithAncestors(d) ==
    IF d = <<>> \/ DirName(d) = d THEN {d}
    ELSE {d} \cup WithAncestors(DirName(d))

_ensure_dir(ds, p) == ds \cup WithAncestors(p)

\* os.makedirs(p, exist_ok=True) cannot fail on a directory that exists
MakedirsOutcomes(ds, p) == IF p \in ds THEN {"ok"} ELSE {"ok", "fail"}

_which(cmd) == cmd \in installed

-----------------------------------------------------------------------------
(* The pure parts of generate_tts *)

IsBlankNoStrip(t) == t = <<>>

\* not text or not text.strip()
IsBlank(t) == t = <<>> \/ Strip(t) = <<>>

\* os.path.dirname(output_filepath) or OUTPUT_DIR
OutDir(p) == IF DirName(p) # <<>> THEN DirName(p) ELSE OUTPUT_DIR

\* os.path.splitext(output_filepath)[1].lower() or ".mp3"
RequestedExt(p) == IF Lower(Ext(p)) # <<>> THEN Lower(Ext(p)) ELSE DotMp3

\* mp3_path of the gTTS branch
GttsPath(p, rext) == IF rext = DotMp3 THEN p ELSE _change_ext(p, DotMp3)

-----------------------------------------------------------------------------
(* The conversion helper *)

\* What running ffmpeg can answer: check=True raises on a non-zero exit, which
\* may leave a truncated dst behind; ffmpeg -y that exits zero has written dst.
\* A src that does not exist makes it exit non-zero.
FfmpegOutcomes(f, src) ==
    IF ~_which("ffmpeg") THEN {"absent"}
    ELSE IF ~Exists(f, src) THEN {"raise"}
    ELSE {"raise", "raise_partial", "exit0"}

\* the files after ffmpeg answered o
FfmpegWrites(f, dst, o) ==
    CASE o = "raise_partial" -> WriteFile(f, dst, "partial")
      [] o = "exit0" -> WriteFile(f, dst, "audio")
      [] OTHER -> f

ConvertAlwaysOut(f, src, dst, o) ==
    [fs |-> FfmpegWrites(f, dst, o), out |-> o # "absent"]

\* _convert_with_ffmpeg(src, dst) when ffmpeg answers o: the file system after
\* it and whether it returned dst (out) rather than None
_convert_with_ffmpeg(f, src, dst, o) ==
    LET g == FfmpegWrites(f, dst, o)
    IN  CASE o = "absent" -> [fs |-> g, out |-> FALSE]
          [] o \in {"raise", "raise_partial"} -> [fs |-> g, out |-> FALSE]
          [] OTHER -> [fs |-> g, out |-> Exists(g, dst)]

FfmpegLog(o) == IF o \in {"absent", "none"} THEN <<>> ELSE <<"ffmpeg">>

-----------------------------------------------------------------------------
(* The backends.  Each operator gives the set of ways its branch can run on *)
(* file system f: the file system after it, the path it returns (NoPath    *)
(* when the branch falls through), the operations it invoked and what they *)
(* answered.                                                               *)

Run(f, path, events, ob) == [fs |-> f, ret |-> path, log |-> events, obs |-> ob]

\* The conversion that follows a backend that wrote wav: convert to mp3 when
\* mp3 was requested, remove the wav and return the mp3 path when the
\* conversion returned it, else return the wav path.  checked tells whether
\* the branch tests os.path.exists(wav_path) (pyttsx3, Windows) or not (Linux).
WavTailBody(f, p, rext, wav, checked, events, ob) ==
    LET mp3 == _change_ext(p, DotMp3)
        native(g) == IF checked => Exists(g, wav) THEN wav ELSE NoPath
    IN  IF (checked => Exists(f, wav)) /\ rext = DotMp3
        THEN UNION {
               LET c == _convert_with_ffmpeg(f, wav, mp3, o)
                   ev == events \o FfmpegLog(o)
               IN  IF c.out
                   THEN { Run(RemoveFile(c.fs, wav, r), mp3, ev,
                              [ob EXCEPT !.ffmpeg = o, !.rm = r])
                          : r \in RemoveOutcomes(c.fs, wav) }
                   ELSE { Run(c.fs, native(c.fs), ev, [ob EXCEPT !.ffmpeg = o]) }
               : o \in FfmpegOutcomes(f, wav) }
        ELSE { Run(f, native(f), events, ob) }

WavTailUnchecked(f, p, rext, wav, checked, events, ob) ==
    WavTailBody(f, p, rext, wav, FALSE, events, ob)

WavTail(f, p, rext, wav, checked, events, ob) ==
    WavTailBody(f, p, rext, wav, checked, events, ob)

GttsOutcomes == {"saved", "raise", "raise_partial"}

\* 1) gTTS: tts.save(mp3_path); return mp3_path / except Exception: pass
GttsRuns(f, p, rext, ob) ==
    LET mp3_path == GttsPath(p, rext)
    IN  { CASE o = "saved" ->
                 Run(WriteFile(f, mp3_path, "audio"), mp3_path, <<"gTTS">>,
                     [ob EXCEPT !.gtts = o])
            [] o = "raise_partial" ->
                 Run(WriteFile(f, mp3_path, "partial"), NoPath, <<"gTTS">>,
                     [ob EXCEPT !.gtts = o])
            [] OTHER ->
                 Run(f, NoPath, <<"gTTS">>, [ob EXCEPT !.gtts = o])
          : o \in GttsOutcomes }

Pyttsx3Outcomes == {"saved", "nofile", "raise"}

\* 2) pyttsx3: save_to_file(text, wav_path); runAndWait(); optional mp3
Pyttsx3Runs(f, p, rext, ob) ==
    LET wav_path == _change_ext(p, DotWav)
    IN  UNION {
          CASE o = "raise" ->
                 { Run(f, NoPath, <<"pyttsx3">>, [ob EXCEPT !.pyttsx3 = o]) }
            [] o = "saved" ->
                 WavTail(WriteFile(f, wav_path, "audio"), p, rext, wav_path, TRUE,
                         <<"pyttsx3">>, [ob EXCEPT !.pyttsx3 = o])
            [] OTHER ->
                 WavTail(f, p, rext, wav_path, TRUE,
                         <<"pyttsx3">>, [ob EXCEPT !.pyttsx3 = o])
          : o \in Pyttsx3Outcomes }

\* subprocess.run(..., check=True): non-zero exit or a missing binary raises;
\* exit status zero with or without the output file written
ToolOutcomes == {"exit0", "exit0_nofile", "raise"}

AfconvertOutcomes(f, src) ==
    IF Exists(f, src) THEN {"exit0", "exit0_nofile", "raise"} ELSE {"raise"}

AfconvertOnlyWithoutFfmpeg == _which("afconvert") /\ ~_which("ffmpeg")

\* if _which("afconvert"): the m4a conversion is tried first
UseAfconvert == _which("afconvert")

\* the part of the macOS branch after say exited zero
DarwinTail(f, p, rext, aiff_path, events, ob) ==
    LET mp3_path == _change_ext(p, DotMp3)
        m4a_path == _change_ext(p, DotM4a)
        viaFfmpeg(ev, ob1) ==
          UNION {
            LET c == _convert_with_ffmpeg(f, aiff_path, mp3_path, o)
            IN  IF c.out
                THEN { Run(RemoveFile(c.fs, aiff_path, r), mp3_path, ev \o FfmpegLog(o),
                           [ob1 EXCEPT !.ffmpeg = o, !.rm = r])
                       : r \in RemoveOutcomes(c.fs, aiff_path) }
                ELSE { Run(c.fs, aiff_path, ev \o FfmpegLog(o),
                           [ob1 EXCEPT !.ffmpeg = o]) }
            : o \in FfmpegOutcomes(f, aiff_path) }
    IN  IF rext = DotMp3
        THEN IF UseAfconvert
             THEN UNION {
                    IF a = "raise"
                    THEN viaFfmpeg(events \o <<"afconvert">>, [ob EXCEPT !.afconvert = a])
                    ELSE LET g == IF a = "exit0" THEN WriteFile(f, m4a_path, "audio") ELSE f
                         IN  { Run(RemoveFile(g, aiff_path, r), m4a_path,
                                   events \o <<"afconvert">>,
                                   [ob EXCEPT !.afconvert = a, !.rm = r])
                               : r \in RemoveOutcomes(g, aiff_path) }
                    : a \in AfconvertOutcomes(f, aiff_path) }
             ELSE viaFfmpeg(events, ob)
        ELSE { Run(f, aiff_path, events, ob) }

\* macOS: say -o aiff_path text
DarwinRuns(f, p, rext, ob) ==
    LET aiff_path == _change_ext(p, DotAiff)
    IN  UNION {
          CASE o = "raise" ->
                 { Run(f, NoPath, <<"say">>, [ob EXCEPT !.tool = o]) }
            [] o = "exit0" ->
                 DarwinTail(WriteFile(f, aiff_path, "audio"), p, rext, aiff_path,
                            <<"say">>, [ob EXCEPT !.tool = o])
            [] OTHER ->
                 DarwinTail(f, p, rext, aiff_path, <<"say">>, [ob EXCEPT !.tool = o])
          : o \in ToolOutcomes }

EspeakCmdLegacyFirst == IF _which("espeak") THEN "espeak" ELSE "espeak-ng"

\* cmd of the Linux branch
EspeakCmd == IF _which("espeak-ng") THEN "espeak-ng" ELSE "espeak"

\* Linux: espeak-ng / espeak -w wav_path text
LinuxRuns(f, p, rext, ob) ==
    LET wav_path == _change_ext(p, DotWav)
    IN  UNION {
          CASE o = "raise" ->
                 { Run(f, NoPath, <<EspeakCmd>>, [ob EXCEPT !.tool = o]) }
            [] o = "exit0" ->
                 WavTail(WriteFile(f, wav_path, "audio"), p, rext, wav_path, FALSE,
                         <<EspeakCmd>>, [ob EXCEPT !.tool = o])
            [] OTHER ->
                 WavTail(f, p, rext, wav_path, FALSE,
                         <<EspeakCmd>>, [ob EXCEPT !.tool = o])
          : o \in ToolOutcomes }

PowershellOutcomes == IF _which("powershell") THEN ToolOutcomes ELSE {"raise"}

\* Windows: powershell SAPI script writing wav_path
WindowsRuns(f, p, rext, ob) ==
    LET wav_path == _change_ext(p, DotWav)
    IN  UNION {
          CASE o = "raise" ->
                 { Run(f, NoPath, <<"powershell">>, [ob EXCEPT !.tool = o]) }
            [] o = "exit0" ->
                 WavTail(WriteFile(f, wav_path, "audio"), p, rext, wav_path, TRUE,
                         <<"powershell">>, [ob EXCEPT !.tool = o])
            [] OTHER ->
                 WavTail(f, p, rext, wav_path, TRUE,
                         <<"powershell">>, [ob EXCEPT !.tool = o])
          : o \in PowershellOutcomes }

-----------------------------------------------------------------------------
(* The state machine *)

\* the machine before generate_tts is first called
InitTts ==
    /\ platform \in Platforms
    /\ installed \in Installs(platform)
    /\ fs = EmptyFs
    /\ dirs = {<<>>}
    /\ pc = "idle"
    /\ text = <<>>
    /\ output_filepath = NoPath
    /\ requested_ext = <<>>
    /\ result = "none"
    /\ ret = NoPath
    /\ log = <<>>
    /\ attempt = NoAttempt
    /\ obs = NoObs
    /\ fs0 = EmptyFs
    /\ dirs0 = {<<>>}
    /\ calls = 0

Init ==
    /\ InitTts
    /\ prev = NoPrev
    /\ mn = MainOff
    /\ logFile = <<>>

AfterBackendNoReturn(b, r, next) ==
    /\ fs' = r.fs
    /\ log' = log \o r.log
    /\ obs' = r.obs
    /\ pc' = next
    /\ IF r.ret # NoPath
       THEN /\ result' = "path"
            /\ ret' = r.ret
            /\ attempt' = [attempt EXCEPT ![b] = "ok"]
       ELSE /\ attempt' = [attempt EXCEPT ![b] = "failed"]
            /\ UNCHANGED <<result, ret>>

\* A backend branch ended: return the path of run r, or go on at position next
AfterBackend(b, r, next) ==
    /\ fs' = r.fs
    /\ log' = log \o r.log
    /\ obs' = r.obs
    /\ IF r.ret # NoPath
       THEN /\ result' = "path"
            /\ ret' = r.ret
            /\ pc' = "done"
            /\ attempt' = [attempt EXCEPT ![b] = "ok"]
       ELSE /\ pc' = next
            /\ attempt' = [attempt EXCEPT ![b] = "failed"]
            /\ UNCHANGED <<result, ret>>

\* A backend is absent: the chain goes on at position next
SkipBackend(b, next) ==
    /\ pc' = next
    /\ attempt' = [attempt EXCEPT ![b] = "unavailable"]
    /\ UNCHANGED <<fs, log, obs, result, ret>>

\* generate_tts entered with a blank text: raise ValueError
EnterBlank(t, p, limit) ==
    /\ pc \in {"idle", "done"}
    /\ calls < limit
    /\ IsBlank(t)
    /\ calls' = calls + 1
    /\ text' = t
    /\ output_filepath' = p
    /\ requested_ext' = <<>>
    /\ fs0' = fs
    /\ dirs0' = dirs
    /\ log' = <<>>
    /\ attempt' = NoAttempt
    /\ obs' = NoObs
    /\ result' = "ValueError"
    /\ ret' = NoPath
    /\ pc' = "done"
    /\ UNCHANGED <<platform, installed, fs, dirs>>

\* generate_tts entered with a text: _ensure_dir(out_dir), requested_ext
EnterCall(t, p, limit) ==
    /\ pc \in {"idle", "done"}
    /\ calls < limit
    /\ ~IsBlank(t)
    /\ calls' = calls + 1
    /\ text' = t
    /\ output_filepath' = p
    /\ fs0' = fs
    /\ dirs0' = dirs
    /\ log' = <<"makedirs">>
    /\ attempt' = NoAttempt
    /\ obs' = NoObs
    /\ ret' = NoPath
    /\ \E o \in MakedirsOutcomes(dirs, OutDir(p)) :
         IF o = "ok"
         THEN /\ dirs' = _ensure_dir(dirs, OutDir(p))
              /\ requested_ext' = RequestedExt(p)
              /\ result' = "none"
              /\ pc' = "gtts"
         ELSE /\ dirs' = dirs
              /\ requested_ext' = <<>>
              /\ result' = "OSError"
              /\ pc' = "done"
    /\ UNCHANGED <<platform, installed, fs>>

CallBlank(t, p) == EnterBlank(t, p, MaxCalls) /\ UNCHANGED others

Call(t, p) == EnterCall(t, p, MaxCalls) /\ UNCHANGED others

TryGtts ==
    /\ pc = "gtts"
    /\ IF _which("gtts")
       THEN \E r \in GttsRuns(fs, output_filepath, requested_ext, obs) :
              AfterBackend("A", r, "pyttsx3")
       ELSE SkipBackend("A", "pyttsx3")
    /\ UNCHANGED <<platform, installed, dirs, text, output_filepath,
                   requested_ext, fs0, dirs0, calls>>
    /\ UNCHANGED others

TryPyttsx3 ==
    /\ pc = "pyttsx3"
    /\ IF _which("pyttsx3")
       THEN \E r \in Pyttsx3Runs(fs, output_filepath, requested_ext, obs) :
              AfterBackend("B", r, "os")
       ELSE SkipBackend("B", "os")
    /\ UNCHANGED <<platform, installed, dirs, text, output_filepath,
                   requested_ext, fs0, dirs0, calls>>
    /\ UNCHANGED others

DarwinGuard == IsDarwin(platform) /\ _which("say")

LinuxGuard == IsLinux(platform) /\ (_which("espeak-ng") \/ _which("espeak"))

WindowsGuard == IsWindows(platform)

TryDarwin ==
    /\ pc = "os"
    /\ DarwinGuard
    /\ \E r \in DarwinRuns(fs, output_filepath, requested_ext, obs) :
         AfterBackend("C", r, "raise")
    /\ UNCHANGED <<platform, installed, dirs, text, output_filepath,
                   requested_ext, fs0, dirs0, calls>>
    /\ UNCHANGED others

TryLinux ==
    /\ pc = "os"
    /\ LinuxGuard
    /\ \E r \in LinuxRuns(fs, output_filepath, requested_ext, obs) :
         AfterBackend("C", r, "raise")
    /\ UNCHANGED <<platform, installed, dirs, text, output_filepath,
                   requested_ext, fs0, dirs0, calls>>
    /\ UNCHANGED others

TryWindows ==
    /\ pc = "os"
    /\ WindowsGuard
    /\ \E r \in WindowsRuns(fs, output_filepath, requested_ext, obs) :
         AfterBackend("C", r, "raise")
    /\ UNCHANGED <<platform, installed, dirs, text, output_filepath,
                   requested_ext, fs0, dirs0, calls>>
    /\ UNCHANGED others

\* no branch of 3) applies on this platform with these tools
NoPlatformTool ==
    /\ pc = "os"
    /\ ~DarwinGuard /\ ~LinuxGuard /\ ~WindowsGuard
    /\ SkipBackend("C", "raise")
    /\ UNCHANGED <<platform, installed, dirs, text, output_filepath,
                   requested_ext, fs0, dirs0, calls>>
    /\ UNCHANGED others

\* raise RuntimeError("No TTS backend available. ...")
RaiseNoBackend ==
    /\ pc = "raise"
    /\ result' = "RuntimeError"
    /\ pc' = "done"
    /\ UNCHANGED <<platform, installed, fs, dirs, text, output_filepath,
                   requested_ext, ret, log, attempt, obs, fs0, dirs0, calls>>
    /\ UNCHANGED others

Next ==
    \/ \E t \in Texts, p \in Paths : CallBlank(t, p)
    \/ \E t \in Texts, p \in Paths : Call(t, p)
    \/ TryGtts
    \/ TryPyttsx3
    \/ TryDarwin
    \/ TryLinux
    \/ TryWindows
    \/ NoPlatformTool
    \/ RaiseNoBackend

Spec == Init /\ [][Next]_vars

-----------------------------------------------------------------------------
(* Vocabulary of the properties *)

\* empty, or whitespace only
AllWhitespace(t) == \A i \in 1..Len(t) : t[i] \in Whitespace

InCall == calls > 0

Done == InCall /\ pc = "done"

\* a call with a text that got past the creation of the directory
Served == Done /\ ~AllWhitespace(text) /\ result # "OSError"

Stem(p) == SplitExt(p)[1]

WantedMp3 == Stem(output_filepath) \o DotMp3

WantedWav == Stem(output_filepath) \o DotWav

SynthEvents == {"gTTS", "pyttsx3", "say", "espeak-ng", "espeak", "powershell"}

BackendOf(e) ==
    CASE e = "gTTS" -> 1
      [] e = "pyttsx3" -> 2
      [] e \in {"say", "espeak-ng", "espeak", "powershell"} -> 3
      [] OTHER -> 0

Invoked(e) == \E i \in 1..Len(log) : log[i] = e

\* the dependency of A is missing, or its synthesis raised
ADown == ~_which("gtts") \/ obs.gtts \in {"raise", "raise_partial"}

\* the dependency of B is missing, its synthesis raised, or it wrote no wav
\* and none was there
BDown ==
    \/ ~_which("pyttsx3")
    \/ obs.pyttsx3 = "raise"
    \/ obs.pyttsx3 = "nofile" /\ ~Exists(fs0, WantedWav)

\* no platform tool applies, its invocation raised (missing binary, non-zero
\* exit), or, on Windows, it wrote no wav and none was there
CDown ==
    \/ ~DarwinGuard /\ ~LinuxGuard /\ ~WindowsGuard
    \/ obs.tool = "raise"
    \/ IsWindows(platform) /\ obs.tool = "exit0_nofile" /\ ~Exists(fs0, WantedWav)

\* only Backend B can be used: A's library and every platform tool are absent
OnlyB ==
    /\ ~_which("gtts")
    /\ _which("pyttsx3")
    /\ ~_which("say") /\ ~_which("espeak-ng") /\ ~_which("espeak")
    /\ ~_which("powershell")

-----------------------------------------------------------------------------
(* Properties *)

\* C1: a call whose text is empty or whitespace only ends with the
\* empty-input error (ValueError) at once: no backend was attempted, no
\* operation was invoked, and files and directories are as before the call.
C1_BlankTextFails ==
    (InCall /\ AllWhitespace(text)) =>
        /\ pc = "done"
        /\ result = "ValueError"
        /\ ret = NoPath
        /\ log = <<>>
        /\ attempt = NoAttempt
        /\ fs = fs0
        /\ dirs = dirs0

C1_Witness == Done /\ text = <<" ">> /\ result = "ValueError"

C3_ShortCircuitMp3 ==
    (Served /\ _which("gtts") /\ obs.gtts = "saved") =>
        /\ result = "path"
        /\ Lower(Ext(ret)) = DotMp3
        /\ \A e \in SynthEvents \ {"gTTS"} : ~Invoked(e)

\* C4: for a text and a desired path with extension .mp3, a call in which a
\* backend produced its audio returns a path, and every path returned holds
\* a non-empty audio file.
C4_Mp3AlwaysDelivered ==
    (Served /\ Lower(Ext(output_filepath)) = DotMp3) =>
        /\ (obs.gtts = "saved" \/ obs.pyttsx3 = "saved" \/ obs.tool = "exit0")
              => result = "path"
        /\ result = "path" => (Exists(fs, ret) /\ fs[ret] = "audio")

\* C5 as stated: only B available (and writing its wav), mp3 requested and
\* ffmpeg absent or failing: the .wav path is returned and no .mp3 of the
\* desired stem exists after the call.
C5_WavAndNoMp3 ==
    (Served /\ OnlyB /\ requested_ext = DotMp3 /\ obs.pyttsx3 = "saved"
        /\ obs.ffmpeg \in {"absent", "raise", "raise_partial"}) =>
        /\ result = "path"
        /\ ret = WantedWav
        /\ ~Exists(fs, WantedMp3)

\* C5 amended: in that case the .wav path is returned and holds the audio;
\* with ffmpeg absent the call leaves no .mp3 that was not there before it,
\* and a .mp3 the call left was left by the failing ffmpeg process.
C5_WavReturned ==
    (Served /\ OnlyB /\ requested_ext = DotMp3 /\ obs.pyttsx3 = "saved"
        /\ obs.ffmpeg \in {"absent", "raise", "raise_partial"}) =>
        /\ result = "path"
        /\ ret = WantedWav
        /\ Ext(ret) = DotWav
        /\ fs[ret] = "audio"
        /\ (Exists(fs, WantedMp3) /\ ~Exists(fs0, WantedMp3))
              => obs.ffmpeg = "raise_partial"

C5_Witness ==
    /\ Served /\ OnlyB /\ requested_ext = DotMp3 /\ obs.pyttsx3 = "saved"
    /\ obs.ffmpeg = "absent"
    /\ ret = WantedWav
    /\ ~Exists(fs, WantedMp3)

C7_ReturnedPathHoldsAudio ==
    (Done /\ result = "path") => (Exists(fs, ret) /\ fs[ret] = "audio")

\* C8: every call ends in exactly one of a returned path, ValueError, OSError
\* of the directory creation, or RuntimeError; a failure inside a backend or
\* a conversion never ends the call by itself: after a backend failure the
\* call returns a path or exhausts the chain, after a conversion failure it
\* returns the native-format path.
C8_FourOutcomes ==
    /\ Done <=> (InCall /\ result # "none")
    /\ Done =>
        /\ result \in {"path", "ValueError", "OSError", "RuntimeError"}
        /\ (result = "path") <=> (ret # NoPath)
        /\ result = "ValueError" <=> AllWhitespace(text)
        /\ result = "OSError" => (log = <<"makedirs">> /\ attempt = NoAttempt)
        /\ result = "RuntimeError" =>
              \A b \in Backends : attempt[b] \in {"unavailable", "failed"}
        /\ (obs.ffmpeg \in {"raise", "raise_partial"} \/ obs.afconvert = "raise")
              => (result = "path" /\ Ext(ret) \in {DotWav, DotAiff, DotMp3})
        /\ obs.ffmpeg \in {"raise", "raise_partial"}
              => (result = "path" /\ Ext(ret) \in {DotWav, DotAiff})
    /\ (InCall /\ ~Done) => \A b \in Backends : attempt[b] # "ok"

C8_Witness ==
    /\ Done
    /\ result = "path"
    /\ obs.gtts = "raise_partial"
    /\ obs.pyttsx3 = "raise"
    /\ obs.afconvert = "raise"
    /\ obs.ffmpeg = "raise"
    /\ Ext(ret) = DotAiff

\* C9: in a call with a text the output directory is created before the
\* first backend attempt; when it cannot be created the call ends with the
\* directory error, no backend attempted and no file written.
C9_DirectoryFirst ==
    (InCall /\ ~AllWhitespace(text)) =>
        /\ Len(log) >= 1 /\ log[1] = "makedirs"
        /\ \A i \in 2..Len(log) : log[i] # "makedirs"
        /\ (Len(log) > 1 \/ attempt # NoAttempt)
              => (result # "OSError" /\ OutDir(output_filepath) \in dirs)
        /\ result = "OSError" =>
              /\ pc = "done"
              /\ OutDir(output_filepath) \notin dirs
              /\ log = <<"makedirs">>
              /\ attempt = NoAttempt
              /\ fs = fs0
              /\ dirs = dirs0

C9_Witness ==
    /\ Done /\ result = "OSError" /\ ~AllWhitespace(text)
    /\ log = <<"makedirs">>

\* C10: within a call the backends are attempted in the order A, B, C, each
\* at most once, a later one only after every earlier one was unavailable or
\* failed, and none after one has succeeded.
C10_FixedOrderOnce ==
    InCall =>
        /\ \A i, j \in 1..Len(log) :
              (i < j /\ BackendOf(log[i]) > 0 /\ BackendOf(log[j]) > 0)
                 => BackendOf(log[i]) < BackendOf(log[j])
        /\ (Invoked("pyttsx3") \/ attempt["B"] # "none") => ADown
        /\ (\E e \in {"say", "espeak-ng", "espeak", "powershell"} : Invoked(e))
              => (ADown /\ BDown)
        /\ attempt["C"] # "none" => (ADown /\ BDown)
        /\ \A b \in Backends : attempt[b] = "ok" =>
              /\ pc = "done"
              /\ \A c \in Backends \ {b} : attempt[c] \in {"unavailable", "failed", "none"}
              /\ b = "A" => (attempt["B"] = "none" /\ attempt["C"] = "none")
              /\ b = "B" => attempt["C"] = "none"

C10_Witness ==
    /\ Done
    /\ log = <<"makedirs", "gTTS", "pyttsx3", "espeak">>
    /\ result = "path"

-----------------------------------------------------------------------------
(* Side effects and the platform branches *)

WantedAiff == Stem(output_filepath) \o DotAiff

WantedM4a == Stem(output_filepath) \o DotM4a

\* the files that exist after the call and did not exist before it
NewFiles == (DOMAIN fs) \ (DOMAIN fs0)

C13_LinuxBranch ==
    (Served /\ IsLinux(platform) /\ ~_which("gtts") /\ ~_which("pyttsx3")
        /\ (_which("espeak-ng") \/ _which("espeak"))) =>
        /\ _which("espeak-ng") => (Invoked("espeak-ng") /\ ~Invoked("espeak"))
        /\ ~_which("espeak-ng") => (Invoked("espeak") /\ ~Invoked("espeak-ng"))
        /\ obs.tool \in {"exit0", "exit0_nofile"} =>
              /\ result = "path"
              /\ ret = IF requested_ext = DotMp3 /\ obs.ffmpeg = "exit0"
                       THEN WantedMp3 ELSE WantedWav
        /\ obs.tool = "exit0" => (Exists(fs, ret) /\ fs[ret] = "audio")
        /\ (obs.tool = "exit0" /\ installed = {"espeak"}
              /\ output_filepath = <<"o", "/", "v", ".", "m", "p", "3">>) =>
              /\ ret = <<"o", "/", "v", ".", "w", "a", "v">>
              /\ Exists(fs, ret)
              /\ ~Exists(fs, output_filepath)

C13_Witness ==
    /\ Served /\ IsLinux(platform) /\ installed = {"espeak"}
    /\ output_filepath = <<"o", "/", "v", ".", "m", "p", "3">>
    /\ obs.tool = "exit0"
    /\ ret = <<"o", "/", "v", ".", "w", "a", "v">>
    /\ Exists(fs, ret)
    /\ ~Exists(fs, output_filepath)

C15_DefaultExtensionIsMp3 ==
    (Served /\ Ext(output_filepath) = <<>> /\ result = "path") =>
        /\ ret \in {output_filepath \o DotMp3, output_filepath \o DotWav,
                    output_filepath \o DotAiff, output_filepath \o DotM4a}
        /\ obs.gtts = "saved" => ret = output_filepath \o DotMp3
        /\ ~Exists(fs, output_filepath)

\* C17: the directory the call creates is the directory of the file it
\* returns, also for a bare file name: no directory is created but the one
\* (with its ancestors) that holds the returned file.
C17_CreatedDirHoldsReturnedFile ==
    (Done /\ result = "path") =>
        \A d \in dirs \ dirs0 : d \in WithAncestors(DirName(ret))

-----------------------------------------------------------------------------
(* Successive calls with the same text *)

PairText == <<"a">>

PairPaths == { <<"o", "/", "v", ".", "m", "p", "3">>,
               <<"o", "/", "v", ".", "w", "a", "v">>,
               <<"o", "/", "w", ".", "m", "p", "3">> }

\* one more generate_tts(PairText, p); the call before it is remembered
PairCall(p) ==
    /\ EnterCall(PairText, p, MaxPairCalls)
    /\ prev' = [path |-> output_filepath, result |-> result, ret |-> ret]
    /\ UNCHANGED <<mn, logFile>>

InitPair ==
    /\ Init
    /\ IsLinux(platform)

NextPair ==
    \/ \E p \in PairPaths : PairCall(p)
    \/ TryGtts
    \/ TryPyttsx3
    \/ TryLinux
    \/ NoPlatformTool
    \/ RaiseNoBackend

SpecPair == InitPair /\ [][NextPair]_vars

\* C12: two successive calls with the same text and two different output
\* paths, both of which return a path, return two distinct paths.
C12_DistinctReturnedPaths ==
    (/\ Done
     /\ prev.result = "path"
     /\ result = "path"
     /\ prev.path # output_filepath) => prev.ret # ret

-----------------------------------------------------------------------------
(* main() of get_summary.py *)

RepoNames == {"r1", "r2"}

\* the search result: the full_name of each repository, NoName when it has none
RepoLists == SeqsUpTo(RepoNames \cup {NoName}, MaxRepos)

\* processed_repos.txt when the run starts
StartLogs == {<<>>, <<"r1">>}

\* load_processed_repos: the set of the non-empty lines of the file
load_processed_repos(file) ==
    {file[i] : i \in 1..Len(file)} \ {NoName}

\* save_processed_repo: one more line
save_processed_repo(file, name) == Append(file, name)

SkipOnlyUnnamed(name, processed) == name = NoName

\* the two tests of the loop that end in "continue"
SkipRepo(name, processed) == name = NoName \/ name \in processed

\* output_dir = f"output/{timestamp}_{safe_repo}"
output_dir == OUTPUT_DIR \o <<"/", "d">>

\* audio_filepath = f"{output_dir}/summary_audio.mp3"
audio_filepath == output_dir \o <<"/", "s">> \o DotMp3

\* plain_summary ends in .strip()
PlainSummaries == {Strip(t) : t \in Texts}

\* summarize_with_gemini returns this text when the generation raised
ErrorSummary == <<"a">>

ReadmeOutcomes == {"present", "missing", "raise"}

SummaryOutcomes == {"text", "errortext", "raise"}

WriteOutcomes == {"ok", "transcript_raise", "summary_raise"}

SaveOutcomes == {"ok", "raise"}

MainEnd(m, how) == [m EXCEPT !.pc = "end", !.outcome = how]

\* processed = load_processed_repos(); top_repos = get_top_github_repos()
MainStart ==
    /\ mn.pc = "start"
    /\ LET m == [mn EXCEPT !.processed = load_processed_repos(logFile)]
       IN  \/ mn' = MainEnd(m, "fetch_error")
           \/ \E l \in RepoLists :
                mn' = IF l = <<>>
                      THEN MainEnd(m, "no_repos")
                      ELSE [m EXCEPT !.repos = l, !.idx = 1, !.pc = "loop"]
    /\ UNCHANGED <<platform, installed, fs, dirs, pc, text, output_filepath,
                   requested_ext, result, ret, log, attempt, obs, fs0, dirs0,
                   calls, prev, logFile>>

\* one turn of "for repo in top_repos", up to the print of the repository
MainLoop ==
    /\ mn.pc = "loop"
    /\ mn' = IF mn.idx > Len(mn.repos)
             THEN MainEnd(mn, "none_new")
             ELSE IF SkipRepo(mn.repos[mn.idx], mn.processed)
             THEN [mn EXCEPT !.idx = mn.idx + 1]
             ELSE [mn EXCEPT !.picked = mn.repos[mn.idx], !.pc = "handle"]
    /\ UNCHANGED <<platform, installed, fs, dirs, pc, text, output_filepath,
                   requested_ext, result, ret, log, attempt, obs, fs0, dirs0,
                   calls, prev, logFile>>

\* the body of the loop for the repository found: os.makedirs(output_dir),
\* screenshot, README, summary, transcript.md, summary.txt,
\* save_processed_repo(repo_name)
MainHandle ==
    /\ mn.pc = "handle"
    /\ \E md \in MakedirsOutcomes(dirs, output_dir), rd \in ReadmeOutcomes,
          sm \in SummaryOutcomes, wr \in WriteOutcomes, sv \in SaveOutcomes,
          t \in PlainSummaries :
         LET made == md = "ok"
             got == made /\ rd = "present"
             summarised == got /\ sm # "raise"
             through == /\ made
                        /\ rd # "raise"
                        /\ got => (summarised /\ wr = "ok")
             saved == through /\ sv = "ok"
             wrote == IF ~summarised \/ wr = "transcript_raise" THEN {}
                      ELSE IF wr = "summary_raise" THEN {"transcript.md"}
                      ELSE {"transcript.md", "summary.txt"}
             m == [mn EXCEPT
                     !.readme = IF made THEN rd ELSE "none",
                     !.summary = IF got THEN sm ELSE "none",
                     !.written = wrote,
                     !.plain = IF ~(got /\ through) THEN <<>>
                               ELSE IF sm = "errortext" THEN ErrorSummary
                               ELSE t]
         IN  /\ dirs' = IF made THEN _ensure_dir(dirs, output_dir) ELSE dirs
             /\ logFile' = IF saved
                           THEN save_processed_repo(logFile, mn.picked)
                           ELSE logFile
             /\ mn' = IF saved
                      THEN [m EXCEPT !.appended = <<mn.picked>>, !.pc = "tts"]
                      ELSE MainEnd(m, "error")
    /\ UNCHANGED <<platform, installed, fs, pc, text, output_filepath,
                   requested_ext, result, ret, log, attempt, obs, fs0, dirs0,
                   calls, prev>>

\* generate_tts_from_text(plain_summary, audio_filepath): plain_summary is
\* unbound when there was no README, otherwise generate_tts is entered
MainTts ==
    /\ mn.pc = "tts"
    /\ \/ /\ mn.readme # "present"
          /\ mn' = MainEnd([mn EXCEPT !.audio = audio_filepath], "tts_error")
          /\ UNCHANGED <<platform, installed, fs, dirs, pc, text,
                         output_filepath, requested_ext, result, ret, log,
                         attempt, obs, fs0, dirs0, calls>>
       \/ /\ mn.readme = "present"
          /\ \/ EnterBlank(mn.plain, audio_filepath, MaxCalls)
             \/ EnterCall(mn.plain, audio_filepath, MaxCalls)
          /\ mn' = [mn EXCEPT !.audio = audio_filepath, !.pc = "ttswait"]
    /\ UNCHANGED <<prev, logFile>>

\* print(f"Audio saved to: {audio_filepath}") / except Exception
MainReport ==
    /\ mn.pc = "ttswait"
    /\ pc = "done"
    /\ mn' = IF result = "path"
             THEN [MainEnd(mn, "audio_saved") EXCEPT !.reported = mn.audio]
             ELSE MainEnd(mn, "tts_error")
    /\ UNCHANGED <<platform, installed, fs, dirs, pc, text, output_filepath,
                   requested_ext, result, ret, log, attempt, obs, fs0, dirs0,
                   calls, prev, logFile>>

InitMain ==
    /\ InitTts
    /\ prev = NoPrev
    /\ mn = [MainOff EXCEPT !.pc = "start"]
    /\ logFile \in StartLogs

NextMain ==
    \/ MainStart
    \/ MainLoop
    \/ MainHandle
    \/ MainTts
    \/ MainReport
    \/ TryGtts
    \/ TryPyttsx3
    \/ TryDarwin
    \/ TryLinux
    \/ TryWindows
    \/ NoPlatformTool
    \/ RaiseNoBackend

SpecMain == InitMain /\ [][NextMain]_vars

MainEnded == mn.pc = "end"

\* C16: an identifier is appended to the processed log only by a run that
\* fetched the README, wrote the transcript and the summary and generated
\* the audio.
C16_AppendedOnlyAfterSuccess ==
    (MainEnded /\ mn.appended # <<>>) =>
        /\ mn.readme = "present"
        /\ mn.summary = "text"
        /\ mn.written = {"transcript.md", "summary.txt"}
        /\ result = "path"

\* C16 as the code has it: a run appends at most one identifier, that of
\* the repository it handles, which was not in the log at startup; it appends
\* once the README step ended without an exception (with a README, the
\* transcript and the summary are written, the summary possibly being the
\* error text of a failed generation; without one, nothing is written), and
\* before the text-to-speech step, whose failure leaves the identifier in the
\* log; a run stopped by an exception before that appends nothing.
C16_AppendedAfterHandling ==
    /\ Len(mn.appended) <= 1
    /\ mn.picked # NoName => mn.picked \notin mn.processed
    /\ mn.appended # <<>> =>
          /\ mn.appended = <<mn.picked>>
          /\ mn.picked # NoName
          /\ logFile[Len(logFile)] = mn.picked
          /\ mn.readme \in {"present", "missing"}
          /\ mn.readme = "present" =>
                /\ mn.summary \in {"text", "errortext"}
                /\ mn.written = {"transcript.md", "summary.txt"}
          /\ mn.readme = "missing" => mn.written = {}
    /\ mn.appended = <<>> =>
          /\ ~InCall
          /\ mn.pc \notin {"tts", "ttswait"}
          /\ mn.outcome \in {"none", "fetch_error", "no_repos", "none_new",
                             "error"}
    /\ mn.outcome \in {"tts_error", "audio_saved"} => mn.appended # <<>>
    /\ mn.pc # "start" =>
          load_processed_repos(logFile)
              = mn.processed \cup {mn.appended[i] : i \in 1..Len(mn.appended)}

C16_Witness ==
    /\ MainEnded
    /\ mn.processed = {"r1"}
    /\ mn.repos = <<"r1", "r2">>
    /\ mn.appended = <<"r2">>
    /\ logFile = <<"r1", "r2">>
    /\ mn.summary = "errortext"
    /\ mn.outcome = "tts_error"
    /\ result = "RuntimeError"

\* C18: whenever main reports that the audio was saved, the path it reports
\* is the path generate_tts returned, and a file exists there.
C18_ReportedPathIsReturned ==
    (mn.reported # NoPath) => (mn.reported = ret /\ Exists(fs, mn.reported))

====
